---- MODULE Spec2Model ----
\* Caption layout of captacity (src/captacity/__init__.py): the line wrapper
\* calculate_lines with its process-wide lines_cache, the fit predicate built by
\* fits_frame, and the caption loop of add_captions.
\*
\* Python strings are sequences of one-character strings, so that str.split,
\* str.strip and " ".join are computed and not assumed.
EXTENDS Integers, Sequences, FiniteSets, TLC

VARIABLES
    text_size,      \* get_text_size_ex as a table: string -> <<width, height>>
    text,           \* calculate_lines argument
    frame_width,    \* calculate_lines argument
    locals,         \* the local variables of a running calculate_lines
    pc,             \* position of the running calculate_lines / of add_captions
    iterations,     \* number of executions of the while body (history)
    last_branch,    \* branch taken by the last execution of the while body (history)
    prev_branch,    \* branch taken by the execution before that one (history)
    data,           \* the value calculate_lines returned
    lines_cache,    \* the global lines_cache: arg_hash -> the dict stored under it
    computed,       \* per arg_hash, the arguments and value of the miss that stored it (history)
    ret,            \* the last call of calculate_lines: arguments, object and value returned (history)
    line_count,     \* fits_frame argument
    next_word,      \* the word appended to text in SpecFit
    fit_result,     \* per text handed to fit_function: line count seen and answer (history)
    segments,       \* add_captions argument: the transcribed words, in order
    highlight_current_word,     \* add_captions argument
    word_pos,       \* segment_parser.parse: number of words consumed
    caption,        \* segment_parser.parse: the words of the caption being built
    captions,       \* the captions parse returned so far
    caption_index,  \* add_captions: number of captions drawn
    fragments       \* add_captions: per element of captions_to_draw, its window and word lists

wrapVars == <<text, locals, iterations, last_branch, prev_branch, data>>
cacheVars == <<computed, ret>>
fitVars == <<line_count, next_word, fit_result>>

capVars == <<segments, highlight_current_word, word_pos, caption, captions,
             caption_index, fragments>>

vars == <<text_size, frame_width, pc, wrapVars, lines_cache, cacheVars, fitVars, capVars>>

-----------------------------------------------------------------------------
\* Bounds of the model.

\* longest text handed to calculate_lines in SpecWrap, in characters
MaxLen == 5

Letters == {"a", "b"}
Space == " "
Chars == Letters \cup {Space}

\* every string of at most n characters
Strings(n) == UNION {[1..k -> Chars] : k \in 0..n}

\* widths a measurer may report, and the frame widths tried against them
\* (zero and negative frame widths included): every string may fit or not
Widths == {1, 2}
FrameWidths == {-1, 0, 1, 2}

-----------------------------------------------------------------------------
\* Python string operations.

RECURSIVE lstrip(_)
lstrip(s) == IF s # <<>> /\ Head(s) = Space THEN lstrip(Tail(s)) ELSE s

RECURSIVE rstrip(_)
rstrip(s) ==
    IF s # <<>> /\ s[Len(s)] = Space THEN rstrip(SubSeq(s, 1, Len(s) - 1)) ELSE s

\* str.strip()
strip(s) == rstrip(lstrip(s))

\* length of the whitespace-free run s starts with
RECURSIVE TokenLen(_)
TokenLen(s) == IF s = <<>> \/ Head(s) = Space THEN 0 ELSE 1 + TokenLen(Tail(s))

\* str.split(): the maximal whitespace-free runs, in order
RECURSIVE split(_)
split(s) ==
    LET t == lstrip(s)
        n == TokenLen(t)
    IN  IF t = <<>> THEN <<>>
        ELSE <<SubSeq(t, 1, n)>> \o split(SubSeq(t, n + 1, Len(t)))

\* " ".join(ws)
RECURSIVE join(_)
join(ws) ==
    IF ws = <<>> THEN <<>>
    ELSE IF Len(ws) = 1 THEN ws[1]
    ELSE ws[1] \o <<Space>> \o join(Tail(ws))

-----------------------------------------------------------------------------
\* The text measurer (text_drawer.get_text_size_ex), a pure function of the
\* string for one font, font size and stroke width.

\* the strings calculate_lines can measure while wrapping txt
Measurable(txt) ==
    LET ws == split(txt)
    IN  {join(SubSeq(ws, i, j)) : i \in 1..Len(ws), j \in 1..Len(ws)} \ {<<>>}

\* rendered height of a string: "b" has an ascender, "a" has none
GlyphHeight(s) == IF \E i \in 1..Len(s) : s[i] = "b" THEN 2 ELSE 1

\* every measurer over the strings D: any width per string
Measurers(D) == {[s \in D |-> <<wf[s], GlyphHeight(s)>>] : wf \in [D -> Widths]}

get_text_size_ex(s) == text_size[s]

-----------------------------------------------------------------------------
\* calculate_lines, lines 38-80: the wrap loop.

\* Python None; a dict is <<d>>, so that "not line_to_draw" is "= None"
None == <<>>

\* lines 38-44
InitLocals(txt) ==
    [lines |-> <<>>, line_to_draw |-> None, line |-> <<>>,
     words |-> split(txt), word_index |-> 0, total_height |-> 0,
     line_height |-> 0, text_width |-> 0]

\* line 45
LoopCond(L) == L.word_index < Len(L.words)

\* lines 46-50
MeasureLine(L) ==
    LET word == L.words[L.word_index + 1]
        line == L.line \o word \o <<Space>>
        size == get_text_size_ex(strip(line))
    IN  [L EXCEPT !.line = line, !.text_width = size[1], !.line_height = size[2]]

\* variant of Fits: a line as wide as the frame is taken to fit
FitsOrEqual(w, fw) == w <= fw

\* line 52
Fits(w, fw) == w < fw

\* lines 53-57
AcceptWord(M) ==
    [M EXCEPT !.line_to_draw = <<[text |-> strip(M.line), height |-> M.line_height]>>,
              !.word_index = M.word_index + 1]

\* variant of CommitLine: the word that did not fit is skipped
CommitLineSkipsWord(M) ==
    [M EXCEPT !.lines = Append(M.lines, M.line_to_draw[1]),
              !.total_height = M.total_height + M.line_height,
              !.line_to_draw = None,
              !.line = <<>>,
              !.word_index = M.word_index + 1]

\* lines 68-71
CommitLine(M) ==
    [M EXCEPT !.lines = Append(M.lines, M.line_to_draw[1]),
              !.total_height = M.total_height + M.line_height,
              !.line_to_draw = None,
              !.line = <<>>]

\* variant of OversizedWord: word_index is not advanced
OversizedWordNoAdvance(M) ==
    CommitLine([M EXCEPT !.line_to_draw =
                    <<[text |-> strip(M.line), height |-> M.line_height]>>])

\* lines 59-71 when line_to_draw is None
OversizedWord(M) == CommitLine(AcceptWord(M))

\* variant of FlushLine: the last line replaces the committed ones
FlushLineReplace(L) ==
    IF L.line_to_draw # None
    THEN [L EXCEPT !.lines = <<L.line_to_draw[1]>>,
                   !.total_height = L.total_height + L.line_height]
    ELSE L

\* lines 73-75
FlushLine(L) ==
    IF L.line_to_draw # None
    THEN [L EXCEPT !.lines = Append(L.lines, L.line_to_draw[1]),
                   !.total_height = L.total_height + L.line_height]
    ELSE L

\* lines 77-80
Data(L) == [lines |-> L.lines, height |-> L.total_height]

\* lines 45-71: one execution of the while body
LoopBody(L, fw) ==
    LET M == MeasureLine(L)
    IN  IF Fits(M.text_width, fw) THEN AcceptWord(M)
        ELSE IF M.line_to_draw = None THEN OversizedWord(M)
        ELSE CommitLine(M)

\* lines 38-80: the value computed on a cache miss
RECURSIVE RunLoop(_, _)
RunLoop(L, fw) == IF LoopCond(L) THEN RunLoop(LoopBody(L, fw), fw) ELSE L

WrapData(txt, fw) == Data(FlushLine(RunLoop(InitLocals(txt), fw)))

-----------------------------------------------------------------------------
\* calculate_lines, lines 31-36 and 82-84: the cache.

\* the style every call of the model uses (defaults of add_captions)
font == "Bangers-Regular.ttf"
font_size == 100
stroke_width == 3

\* CPython's hash of an int is the value modulo the Mersenne prime 2^61 - 1,
\* with the sign kept and -1 mapped to -2. The modulus is scaled down to the
\* Mersenne prime 2^3 - 1 so that colliding integers are small.
PyHashModulus == 7

IntHash(x) ==
    LET h == IF x >= 0 THEN x % PyHashModulus ELSE -((-x) % PyHashModulus)
    IN  IF h = -1 THEN -2 ELSE h

\* hashes of distinct strings are taken to be distinct
StrHash(s) == s

\* the hash of a tuple is a function of the hashes of its elements, taken to
\* be one-to-one on them
TupleHash(hs) == hs

\* variant of arg_hash: frame_width is left out of the key
ArgHashIgnoresWidth(txt, fw) ==
    TupleHash(<<StrHash(txt), StrHash(font), IntHash(font_size),
                IntHash(stroke_width), IntHash(0)>>)

\* line 33
arg_hash(txt, fw) ==
    TupleHash(<<StrHash(txt), StrHash(font), IntHash(font_size),
                IntHash(stroke_width), IntHash(fw)>>)

\* lines 31-36, 77-84: the cache after the call
CacheAfterCall(cache, txt, fw) ==
    IF arg_hash(txt, fw) \in DOMAIN cache THEN cache
    ELSE cache @@ (arg_hash(txt, fw) :> WrapData(txt, fw))

\* lines 36 and 84: the object returned is the one stored in the cache, named
\* here by the key it is stored under
ReturnedObject(txt, fw) == arg_hash(txt, fw)

\* lines 15-18: fit_function on a cache; the line count it sees
FitLineCount(cache, txt, fw) ==
    Len(CacheAfterCall(cache, txt, fw)[ReturnedObject(txt, fw)].lines)

\* the variables of add_captions, in the specifications that do not run it
NoCaptions ==
    /\ segments = <<>> /\ highlight_current_word = FALSE
    /\ word_pos = 0 /\ caption = <<>> /\ captions = <<>>
    /\ caption_index = 0 /\ fragments = <<>>

-----------------------------------------------------------------------------
\* SpecWrap: one call of calculate_lines on an empty cache, statement by statement.

InitWrap ==
    /\ text \in Strings(MaxLen)
    /\ frame_width \in FrameWidths
    /\ text_size \in Measurers(Measurable(text))
    /\ locals = InitLocals(text)
    /\ pc = "loop"
    /\ iterations = 0
    /\ last_branch = "none"
    /\ prev_branch = "none"
    /\ data = None
    /\ lines_cache = <<>>
    /\ computed = <<>> /\ ret = None
    /\ line_count = 0 /\ next_word = <<>> /\ fit_result = <<>>
    /\ NoCaptions

LoopStep(branch, L) ==
    /\ locals' = L
    /\ iterations' = iterations + 1
    /\ last_branch' = branch
    /\ prev_branch' = last_branch
    /\ UNCHANGED <<text_size, text, frame_width, pc, data, lines_cache, cacheVars, fitVars, capVars>>

\* lines 45-57
WrapAccept ==
    /\ pc = "loop" /\ LoopCond(locals)
    /\ Fits(MeasureLine(locals).text_width, frame_width)
    /\ LoopStep("accept", AcceptWord(MeasureLine(locals)))

\* lines 45-51, 58-71 with no line to draw yet
WrapOversized ==
    /\ pc = "loop" /\ LoopCond(locals)
    /\ ~Fits(MeasureLine(locals).text_width, frame_width)
    /\ MeasureLine(locals).line_to_draw = None
    /\ LoopStep("oversized", OversizedWord(MeasureLine(locals)))

\* lines 45-51, 58-59, 68-71 with a line to draw
WrapCommit ==
    /\ pc = "loop" /\ LoopCond(locals)
    /\ ~Fits(MeasureLine(locals).text_width, frame_width)
    /\ MeasureLine(locals).line_to_draw # None
    /\ LoopStep("commit", CommitLine(MeasureLine(locals)))

\* lines 73-84
WrapReturn ==
    /\ pc = "loop" /\ ~LoopCond(locals)
    /\ locals' = FlushLine(locals)
    /\ data' = <<Data(FlushLine(locals))>>
    /\ lines_cache' = (arg_hash(text, frame_width) :> Data(FlushLine(locals)))
    /\ pc' = "done"
    /\ UNCHANGED <<text_size, text, frame_width, iterations, last_branch, prev_branch,
                   cacheVars, fitVars, capVars>>

NextWrap == WrapAccept \/ WrapOversized \/ WrapCommit \/ WrapReturn

SpecWrap == InitWrap /\ [][NextWrap]_vars

-----------------------------------------------------------------------------
\* Properties of the wrap loop.

Width(s) == get_text_size_ex(s)[1]

\* the words of each returned line
LineWords(ls) == [k \in 1..Len(ls) |-> split(ls[k].text)]

RECURSIVE Flatten(_)
Flatten(ss) == IF ss = <<>> THEN <<>> ELSE Head(ss) \o Flatten(Tail(ss))

RECURSIVE SumHeights(_)
SumHeights(ls) == IF ls = <<>> THEN 0 ELSE Head(ls).height + SumHeights(Tail(ls))

\* t is s with one more word appended
IsAppend(s, t) ==
    /\ Len(split(t)) = Len(split(s)) + 1
    /\ SubSeq(split(t), 1, Len(split(s))) = split(s)

\* a string's width never decreases when a word is appended
AppendMonotone ==
    \A s \in DOMAIN text_size : \A t \in DOMAIN text_size :
        IsAppend(s, t) => Width(t) >= Width(s)

\* a string is never narrower than any single word it contains
ContainsWordMonotone ==
    \A s \in DOMAIN text_size : \A i \in 1..Len(split(s)) :
        Width(s) >= Width(split(s)[i])

\* no word is dropped, truncated or reordered, and every word that alone
\* measures >= frame_width is a line of its own
OversizedWordsAlone ==
    LET LW == LineWords(data[1].lines)
    IN  /\ Flatten(LW) = split(text)
        /\ \A k \in 1..Len(LW) : \A j \in 1..Len(LW[k]) :
                Width(LW[k][j]) >= frame_width => Len(LW[k]) = 1

\* C3 as stated: under a measurer whose width never decreases when a word is
\* appended, every word of the text that alone measures >= frame_width is
\* returned as a line of exactly that word, and no word is dropped.
C3_OversizedAlone_AppendMonotone ==
    (pc = "done" /\ AppendMonotone) => OversizedWordsAlone

\* C3 amended: the same, under a measurer for which a string is never narrower
\* than any single word it contains.
C3_OversizedAlone ==
    (pc = "done" /\ ContainsWordMonotone) => OversizedWordsAlone

\* a three-word text whose middle word alone is too wide and whose first word
\* fits has been wrapped
C3_Witness ==
    /\ pc = "done" /\ ContainsWordMonotone
    /\ Len(split(text)) = 3
    /\ Width(split(text)[1]) < frame_width
    /\ Width(split(text)[2]) >= frame_width
    /\ Width(split(text)[3]) < frame_width
    /\ Len(data[1].lines) = 3

\* C4: every line committed by calculate_lines measures < frame_width, unless
\* it is a single word that alone measures >= frame_width.
C4_LinesFit ==
    \A k \in 1..Len(locals.lines) :
        \/ Width(locals.lines[k].text) < frame_width
        \/ /\ Len(split(locals.lines[k].text)) = 1
           /\ Width(locals.lines[k].text) >= frame_width

\* a result holding a fitting line of two words and an oversized one-word line
C4_Witness ==
    /\ pc = "done"
    /\ \E k \in 1..Len(data[1].lines) :
            /\ Len(split(data[1].lines[k].text)) = 2
            /\ Width(data[1].lines[k].text) < frame_width
    /\ \E k \in 1..Len(data[1].lines) :
            Width(data[1].lines[k].text) >= frame_width

\* C5: the returned "height" is the sum of the "height" fields of the
\* returned lines.
C5_HeightIsSum ==
    pc = "done" => data[1].height = SumHeights(data[1].lines)

\* C10: the while body runs at most 2*n times for n words, and at least n
\* times before the loop is left; after a commit caused by a word that did not
\* fit, that word is retried against the empty accumulator, and the retry
\* accepts it (as a fitting or as an oversized word), never commits again.
C10_Terminates ==
    /\ iterations <= 2 * Len(locals.words)
    /\ pc = "loop" /\ ~LoopCond(locals) => iterations >= Len(locals.words)
    /\ last_branch = "commit" =>
            /\ locals.line = <<>> /\ locals.line_to_draw = None
            /\ LoopCond(locals)
    /\ prev_branch = "commit" => last_branch \in {"accept", "oversized"}

\* a call on three words has returned after 5 executions of the body: twice a
\* line was committed because a word did not fit, and the word was retried
C10_Witness ==
    /\ pc = "done"
    /\ Len(locals.words) = 3
    /\ iterations = 5

-----------------------------------------------------------------------------
\* SpecCache: any sequence of calculate_lines calls, and callers that change
\* the dict a call handed them.

\* a fixed-pitch measurer: every character is one pixel wide
Monospace(D) == [s \in D |-> <<Len(s), GlyphHeight(s)>>]

CacheTexts == {<<"a", " ", "b">>, <<"a", "b", " ", "a">>}

\* frame widths of the calls, with integers that CPython hashes alike
CacheFrameWidths == {0, 4, PyHashModulus}

InitCache ==
    /\ text_size = Monospace(UNION {Measurable(t) : t \in CacheTexts})
    /\ lines_cache = <<>>
    /\ computed = <<>>
    /\ ret = None
    /\ text = <<>> /\ frame_width = 0 /\ locals = InitLocals(<<>>)
    /\ pc = "idle" /\ iterations = 0
    /\ last_branch = "none" /\ prev_branch = "none" /\ data = None
    /\ line_count = 0 /\ next_word = <<>> /\ fit_result = <<>>
    /\ NoCaptions

\* lines 23-84: one call of calculate_lines
Call(txt, fw) ==
    /\ lines_cache' = CacheAfterCall(lines_cache, txt, fw)
    /\ computed' =
            IF arg_hash(txt, fw) \in DOMAIN lines_cache THEN computed
            ELSE computed @@ (arg_hash(txt, fw) :>
                    [text |-> txt, frame_width |-> fw, value |-> WrapData(txt, fw)])
    /\ ret' = <<[text |-> txt, frame_width |-> fw,
                 object |-> ReturnedObject(txt, fw),
                 value |-> lines_cache'[ReturnedObject(txt, fw)]]>>
    /\ UNCHANGED <<text_size, frame_width, pc, wrapVars, fitVars, capVars>>

CalculateLines == \E txt \in CacheTexts : \E fw \in CacheFrameWidths : Call(txt, fw)

\* the caller of the last call changes the dict it was handed:
\* result["lines"].clear()
CallerClearsLines ==
    /\ ret # None
    /\ lines_cache[ret[1].object].lines # <<>>
    /\ lines_cache' = [lines_cache EXCEPT ![ret[1].object].lines = <<>>]
    /\ UNCHANGED <<text_size, frame_width, pc, wrapVars, cacheVars, fitVars, capVars>>

NextCache == CalculateLines \/ CallerClearsLines

SpecCache == InitCache /\ [][NextCache]_vars

\* C6: what a caller does to a result it was handed never changes the entry
\* of lines_cache: every entry keeps the value computed when it was stored.
C6_CacheEntryUnchanged ==
    \A h \in DOMAIN lines_cache : lines_cache[h] = computed[h].value

\* C7: every call returns the value an uncached computation on its arguments
\* gives, and the entry it returns was stored for these same arguments.
C7_CacheTransparent ==
    ret # None =>
        /\ ret[1].value = WrapData(ret[1].text, ret[1].frame_width)
        /\ computed[ret[1].object].text = ret[1].text
        /\ computed[ret[1].object].frame_width = ret[1].frame_width

-----------------------------------------------------------------------------
\* SpecFit: the predicate built by fits_frame, asked about a text and about
\* the text followed by one more word, in either order, on an empty cache.

LineCounts == 0..2

\* txt followed by the word w
Followed(txt, w) == txt \o <<Space>> \o w

InitFit ==
    /\ text \in Strings(MaxLen - 2)
    /\ next_word \in {<<c>> : c \in Letters}
    /\ frame_width \in FrameWidths
    /\ line_count \in LineCounts
    /\ text_size \in Measurers(Measurable(Followed(text, next_word)))
    /\ lines_cache = <<>>
    /\ fit_result = <<>>
    /\ computed = <<>> /\ ret = None
    /\ locals = InitLocals(<<>>)
    /\ pc = "idle" /\ iterations = 0
    /\ last_branch = "none" /\ prev_branch = "none" /\ data = None
    /\ NoCaptions

\* lines 16-18: fit_function(txt)
FitFunction(txt) ==
    /\ lines_cache' = CacheAfterCall(lines_cache, txt, frame_width)
    /\ fit_result' =
            [t \in DOMAIN fit_result \cup {txt} |->
                IF t = txt
                THEN [count |-> FitLineCount(lines_cache, txt, frame_width),
                      fits |-> FitLineCount(lines_cache, txt, frame_width) <= line_count]
                ELSE fit_result[t]]
    /\ UNCHANGED <<text_size, frame_width, pc, wrapVars, cacheVars, line_count,
                   next_word, capVars>>

FitText == FitFunction(text)

FitTextFollowed == FitFunction(Followed(text, next_word))

NextFit == FitText \/ FitTextFollowed

SpecFit == InitFit /\ [][NextFit]_vars

BothAsked == {text, Followed(text, next_word)} \subseteq DOMAIN fit_result

\* C8: the text followed by one more word never wraps into fewer lines than
\* the text, so a text that does not fit is not made to fit by appending a word.
C8_FitMonotonic ==
    BothAsked =>
        /\ fit_result[Followed(text, next_word)].count >= fit_result[text].count
        /\ ~fit_result[text].fits => ~fit_result[Followed(text, next_word)].fits

\* a text that fits and stops fitting when the word is appended
C8_Witness ==
    /\ BothAsked
    /\ fit_result[text].fits
    /\ ~fit_result[Followed(text, next_word)].fits
    /\ fit_result[text].count = 2

-----------------------------------------------------------------------------
\* SpecTimeline and SpecHighlight: add_captions from the parse of the
\* transcribed words to the text of every fragment (lines 192-248).

\* longest word stream
MaxWords == 3

\* latest time stamp
MaxTime == 2

\* the word texts of a stream: whitespace-free, non-empty
WordTexts == {<<"a">>, <<"b">>, <<"a", "b">>}

\* Word records with start <= end
WordRecords(texts) ==
    {w \in [text : texts, start : 0..MaxTime, end : 0..MaxTime] : w.start <= w.end}

\* time-ordered streams of the word "a": starts never decrease
TimedStreams ==
    {ws \in UNION {[1..n -> WordRecords({<<"a">>})] : n \in 0..MaxWords} :
        \A i \in 1..(Len(ws) - 1) : ws[i].start <= ws[i + 1].start}

\* streams of any words spoken back to back, one time unit each
SpokenStreams ==
    {[i \in 1..Len(ts) |-> [text |-> ts[i], start |-> i - 1, end |-> i]] :
        ts \in UNION {[1..n -> WordTexts] : n \in 0..MaxWords}}

\* the texts of a sequence of words
Texts(ws) == [i \in 1..Len(ws) |-> ws[i].text]

font_color == "white"
highlight_color == "yellow"

InitCaptions(streams) ==
    /\ segments \in streams
    /\ highlight_current_word \in BOOLEAN
    /\ line_count \in LineCounts
    /\ frame_width \in {2, 4}
    /\ text_size = Monospace(Measurable(join(Texts(segments))))
    /\ lines_cache = <<>>
    /\ word_pos = 0 /\ caption = <<>> /\ captions = <<>>
    /\ caption_index = 0 /\ fragments = <<>>
    /\ pc = "parse"
    /\ text = <<>> /\ locals = InitLocals(<<>>) /\ iterations = 0
    /\ last_branch = "none" /\ prev_branch = "none" /\ data = None
    /\ computed = <<>> /\ ret = None
    /\ next_word = <<>> /\ fit_result = <<>>

\* a finished Caption: text is the space-joined word texts, start and end are
\* the first word's start and the last word's end
Caption(ws) ==
    [text |-> join(Texts(ws)), words |-> ws,
     start |-> ws[1].start, end |-> ws[Len(ws)].end]

\* lines 16-18: the answer of the predicate built by fits_frame (lines 197-203)
fit_function(txt) == FitLineCount(lines_cache, txt, frame_width) <= line_count

ParseStep(buf, caps) ==
    /\ caption' = buf
    /\ captions' = caps
    /\ word_pos' = word_pos + 1
    /\ lines_cache' =
            CacheAfterCall(lines_cache,
                join(Texts(Append(caption, segments[word_pos + 1]))), frame_width)
    /\ UNCHANGED <<text_size, frame_width, wrapVars, cacheVars, fitVars, pc,
                   segments, highlight_current_word, caption_index, fragments>>

\* parse: the next word still fits
ParseFits ==
    /\ pc = "parse" /\ word_pos < Len(segments)
    /\ fit_function(join(Texts(Append(caption, segments[word_pos + 1]))))
    /\ ParseStep(Append(caption, segments[word_pos + 1]), captions)

\* parse: the next word does not fit; the caption built so far is closed
ParseOverflow ==
    /\ pc = "parse" /\ word_pos < Len(segments)
    /\ ~fit_function(join(Texts(Append(caption, segments[word_pos + 1]))))
    /\ caption # <<>>
    /\ ParseStep(<<segments[word_pos + 1]>>, Append(captions, Caption(caption)))

\* parse: a word that does not fit even alone is kept
ParseOverflowAlone ==
    /\ pc = "parse" /\ word_pos < Len(segments)
    /\ ~fit_function(join(Texts(Append(caption, segments[word_pos + 1]))))
    /\ caption = <<>>
    /\ ParseStep(<<segments[word_pos + 1]>>, captions)

\* parse: the stream has ended
ParseFlush ==
    /\ pc = "parse" /\ word_pos = Len(segments)
    /\ captions' = IF caption = <<>> THEN captions ELSE Append(captions, Caption(caption))
    /\ caption' = <<>>
    /\ pc' = "captions"
    /\ UNCHANGED <<text_size, frame_width, wrapVars, lines_cache, cacheVars, fitVars,
                   segments, highlight_current_word, word_pos, caption_index, fragments>>

\* variant of HighlightEnd: every window ends at its own word's end
HighlightEndOwn(ws, i) == ws[i].end

\* lines 211-214 (i counts from 1)
HighlightEnd(ws, i) == IF i + 1 <= Len(ws) THEN ws[i + 1].start ELSE ws[i].end

\* variant of WordWindow: every window starts at the caption's start
WordWindowCaptionStart(c, i) ==
    [text |-> c.text, start |-> c.start, end |-> HighlightEnd(c.words, i)]

\* lines 216-222
WordWindow(c, i) ==
    [text |-> c.text, start |-> c.words[i].start, end |-> HighlightEnd(c.words, i)]

\* lines 208-224
captions_to_draw(c, highlight) ==
    IF highlight
    THEN [i \in 1..Len(c.words) |-> WordWindow(c, i)]
    ELSE <<[text |-> c.text, start |-> c.start, end |-> c.end]>>

\* number of words in the first k lines
RECURSIVE WordsBefore(_, _)
WordsBefore(ls, k) ==
    IF k = 0 THEN 0 ELSE WordsBefore(ls, k - 1) + Len(split(ls[k].text))

\* variant of WordColor: highlight_current_word is not consulted
WordColorAlwaysHighlight(highlight, index, current_index) ==
    IF index = current_index THEN highlight_color ELSE font_color

\* lines 244-246: the color of the word with running number index
WordColor(highlight, index, current_index) ==
    IF highlight /\ index = current_index THEN highlight_color ELSE font_color

\* variant of word_list: index starts again at 0 on every line
WordListIndexPerLine(ls, k, highlight, current_index) ==
    [j \in 1..Len(split(ls[k].text)) |->
        [text |-> split(ls[k].text)[j],
         color |-> WordColor(highlight, j - 1, current_index)]]

\* lines 241-248: the word list of line k; index runs on over the lines
word_list(ls, k, highlight, current_index) ==
    [j \in 1..Len(split(ls[k].text)) |->
        [text |-> split(ls[k].text)[j],
         color |-> WordColor(highlight, WordsBefore(ls, k - 1) + j - 1, current_index)]]

\* lines 226-248 and 288-291: one element of captions_to_draw, drawn
Fragment(cache, k, c, highlight, current_index) ==
    LET line_data == cache[ReturnedObject(c.text, frame_width)]
    IN  [caption |-> k, current_index |-> current_index,
         start |-> c.start, end |-> c.end,
         lines |-> [n \in 1..Len(line_data.lines) |->
                        word_list(line_data.lines, n, highlight, current_index)]]

\* lines 207-293: one pass of the loop over the captions
DrawCaption ==
    /\ pc = "captions" /\ caption_index < Len(captions)
    /\ LET c == captions[caption_index + 1]
           todo == captions_to_draw(c, highlight_current_word)
           cache == CacheAfterCall(lines_cache, c.text, frame_width)
       IN  /\ lines_cache' = cache
           /\ fragments' = fragments \o
                [i \in 1..Len(todo) |->
                    Fragment(cache, caption_index + 1, todo[i],
                             highlight_current_word, i - 1)]
    /\ caption_index' = caption_index + 1
    /\ UNCHANGED <<text_size, frame_width, wrapVars, cacheVars, fitVars, pc,
                   segments, highlight_current_word, word_pos, caption, captions>>

\* line 295: every caption is drawn
DrawDone ==
    /\ pc = "captions" /\ caption_index = Len(captions)
    /\ pc' = "done"
    /\ UNCHANGED <<text_size, frame_width, wrapVars, lines_cache, cacheVars, fitVars,
                   capVars>>

NextCaptions ==
    ParseFits \/ ParseOverflow \/ ParseOverflowAlone \/ ParseFlush
        \/ DrawCaption \/ DrawDone

\* SpecTimeline: words with any time stamps
SpecTimeline == InitCaptions(TimedStreams) /\ [][NextCaptions]_vars

\* SpecHighlight: any words, spoken back to back
SpecHighlight == InitCaptions(SpokenStreams) /\ [][NextCaptions]_vars

\* the windows ws, in order, tile [a, b): the first begins at a, each begins
\* where the one before it ended, the last ends at b, and none is reversed
Tiles(ws, a, b) ==
    /\ Len(ws) >= 1
    /\ ws[1].start = a
    /\ ws[Len(ws)].end = b
    /\ \A k \in 1..Len(ws) : ws[k].start <= ws[k].end
    /\ \A k \in 1..(Len(ws) - 1) : ws[k + 1].start = ws[k].end

\* the last word of every caption ends where the next caption's first word starts
BoundariesContiguous ==
    \A k \in 1..(Len(captions) - 1) : captions[k].end = captions[k + 1].start

\* the fragments of caption k, in output order
FragmentsOf(k) ==
    LET OfCaption(f) == f.caption = k
    IN  SelectSeq(fragments, OfCaption)

\* C1 as stated: for every non-empty stream and either highlight setting, the
\* windows of all fragments, in output order, tile
\* [first_word.start, last_word.end).
C1_WindowsTileStream ==
    (pc = "done" /\ segments # <<>>) =>
        Tiles(fragments, segments[1].start, segments[Len(segments)].end)

\* C1 amended: the windows of all fragments tile
\* [first_word.start, last_word.end) whenever the last word of every caption
\* ends exactly where the first word of the next caption starts.
C1_WindowsTileContiguousStream ==
    (pc = "done" /\ segments # <<>> /\ BoundariesContiguous) =>
        Tiles(fragments, segments[1].start, segments[Len(segments)].end)

\* three highlighted fragments of two captions that meet in time have been drawn
C1_Witness ==
    /\ pc = "done" /\ highlight_current_word
    /\ Len(captions) = 2 /\ BoundariesContiguous
    /\ Len(fragments) = 3
    /\ segments[1].end < segments[2].start

\* C2: with highlighting, a caption of n words is expanded into n windows,
\* window i from word i's start to word i+1's start, the last one to the last
\* word's end; they tile [caption.start, caption.end).
C2_HighlightWindows ==
    highlight_current_word =>
        \A k \in 1..caption_index :
            LET fs == FragmentsOf(k)
                ws == captions[k].words
            IN  /\ Len(fs) = Len(ws)
                /\ \A i \in 1..Len(ws) :
                        /\ fs[i].start = ws[i].start
                        /\ fs[i].end =
                            IF i < Len(ws) THEN ws[i + 1].start ELSE ws[i].end
                /\ Tiles(fs, captions[k].start, captions[k].end)

\* a highlighted caption of three words with a pause after its first word has
\* been expanded
C2_Witness ==
    /\ highlight_current_word /\ caption_index >= 1
    /\ Len(captions[1].words) = 3
    /\ captions[1].words[1].end < captions[1].words[2].start
    /\ Len(FragmentsOf(1)) = 3

\* C9: with highlighting, exactly one word of a fragment's lines has the
\* highlight color, the word with the fragment's number, counted over the
\* lines, and it is that word of the caption; without highlighting, none has.
C9_OneWordHighlighted ==
    \A n \in 1..Len(fragments) :
        LET f == fragments[n]
            drawn == Flatten(f.lines)
            yellow == {j \in 1..Len(drawn) : drawn[j].color = highlight_color}
        IN  IF highlight_current_word
            THEN /\ yellow = {f.current_index + 1}
                 /\ drawn[f.current_index + 1].text =
                        captions[f.caption].words[f.current_index + 1].text
                 /\ Len(drawn) = Len(captions[f.caption].words)
            ELSE yellow = {}

\* a fragment of two lines whose highlighted word is the first of the second line
C9_Witness ==
    \E n \in 1..Len(fragments) :
        /\ Len(fragments[n].lines) = 2
        /\ Len(fragments[n].lines[1]) = 2
        /\ fragments[n].lines[2][1].color = highlight_color

====
